---- MODULE Spec2Model ----
(***************************************************************************)
(* guestfish "alloc" and "sparse" commands (fish/alloc.c): the size        *)
(* parser parse_size and the two handlers do_alloc and do_sparse, each a   *)
(* linear sequence of system calls whose outcomes the environment chooses. *)
(*                                                                         *)
(* 64-bit quantities (uint64_t, off_t, size_t) are sequences of 8 bytes,   *)
(* least significant first, so that arithmetic keeps its width.            *)
(***************************************************************************)
EXTENDS Integers, Sequences, FiniteSets

(* ------------------------------------------------------------------ *)
(* Bounds of the model                                                 *)
(* ------------------------------------------------------------------ *)

\* parse inputs: numbers a * 2^b and 2^64 - 1 - a, with a in 0..MaxMantissa
MaxMantissa == 3
\* parse inputs: characters following the first character after the digits
MaxTrail == 1
\* bytes the disk can back with real storage before write reports ENOSPC
DiskBytes == 2000
\* length of the file that may already be at the path
PreLen == 7

(* ------------------------------------------------------------------ *)
(* 64-bit unsigned arithmetic on bytes                                 *)
(* ------------------------------------------------------------------ *)

\* bytes in a uint64_t / off_t / size_t
W == 8
\* values of one byte
B == 256
\* sizeof buffer: stdio's BUFSIZ, 1024 on the BSD and Darwin C libraries,
\* the platforms without posix_fallocate that take the write loop
BUFSIZ == 1024

\* the 64-bit value whose byte i is F(i)
Bytes(F(_)) == <<F(1), F(2), F(3), F(4), F(5), F(6), F(7), F(8)>>

Zero64 == Bytes(LAMBDA i : 0)

Max64 == Bytes(LAMBDA i : B - 1)

\* the 64-bit value of a natural number below 2^31
FromNat(k) ==
  Bytes(LAMBDA i : IF i = 1 THEN k % B
                   ELSE IF i = 2 THEN (k \div B) % B
                   ELSE IF i = 3 THEN (k \div (B * B)) % B
                   ELSE IF i = 4 THEN k \div (B * B * B)
                   ELSE 0)

One64 == FromNat(1)

\* whether a 64-bit value is below 2^31, and then its value
FitsNat(a) == a[4] < 128 /\ \A i \in 5..W : a[i] = 0

ToNat(a) == a[1] + B * a[2] + B * B * a[3] + B * B * B * a[4]

\* the bytes i..W of a + b, with the carry into byte i
RECURSIVE AddFrom(_, _, _, _)
AddFrom(a, b, i, carry) ==
  IF i > W THEN <<>>
  ELSE <<(a[i] + b[i] + carry) % B>>
         \o AddFrom(a, b, i + 1, (a[i] + b[i] + carry) \div B)

\* a + b modulo 2^64
Add64(a, b) == AddFrom(a, b, 1, 0)

\* column k of the schoolbook product
RECURSIVE MulCol(_, _, _, _)
MulCol(a, b, k, i) ==
  IF i = 0 THEN 0 ELSE a[i] * b[k + 1 - i] + MulCol(a, b, k, i - 1)

\* the bytes k..W of a * b, with the carry into byte k
RECURSIVE MulFrom(_, _, _, _)
MulFrom(a, b, k, carry) ==
  IF k > W THEN <<>>
  ELSE LET c == MulCol(a, b, k, k) + carry
       IN  <<c % B>> \o MulFrom(a, b, k + 1, c \div B)

\* a * b modulo 2^64: the C product of two uint64_t
Mul64(a, b) == MulFrom(a, b, 1, 0)

\* -a modulo 2^64
Neg64(a) == Add64(Bytes(LAMBDA i : B - 1 - a[i]), One64)

\* a - b modulo 2^64
Sub64(a, b) == Add64(a, Neg64(b))

\* a < b as unsigned values
Less64(a, b) ==
  \E i \in 1..W : a[i] < b[i] /\ \A j \in (i + 1)..W : a[j] = b[j]

\* the sign of the value read as a signed 64-bit off_t
IsNeg(a) == a[W] >= 128

\* INT64_MAX and INT64_MIN as bit patterns
OffMax == Bytes(LAMBDA i : IF i = W THEN 127 ELSE B - 1)

OffMin == Bytes(LAMBDA i : IF i = W THEN 128 ELSE 0)

(* ------------------------------------------------------------------ *)
(* Strings: sequences of one-character strings                         *)
(* ------------------------------------------------------------------ *)

Digits == <<"0", "1", "2", "3", "4", "5", "6", "7", "8", "9">>

IsDigit(c) == \E d \in 1..10 : Digits[d] = c

DigitVal(c) == (CHOOSE d \in 1..10 : Digits[d] = c) - 1

\* isspace, as the conversion %u skips it before the number
IsSpace(c) == c \in {" ", "\t", "\n"}

IsSign(c) == c \in {"+", "-"}

RECURSIVE SkipSpace(_)
SkipSpace(s) ==
  IF s # <<>> /\ IsSpace(Head(s)) THEN SkipSpace(Tail(s)) ELSE s

\* the bytes i..W of a * 10 + d, and after them the carry out of byte W
RECURSIVE TenFrom(_, _, _)
TenFrom(a, i, carry) ==
  IF i > W THEN <<carry>>
  ELSE <<(a[i] * 10 + carry) % B>>
         \o TenFrom(a, i + 1, (a[i] * 10 + carry) \div B)

\* The digits at the head of s accumulated onto acc: the value modulo 2^64,
\* whether the true value left the 64-bit range, the number of digits and
\* what follows them.
RECURSIVE ScanDigits(_, _, _, _)
ScanDigits(s, acc, over, cnt) ==
  IF s # <<>> /\ IsDigit(Head(s))
  THEN LET t == TenFrom(acc, 1, DigitVal(Head(s)))
       IN  ScanDigits(Tail(s), SubSeq(t, 1, W), over \/ t[W + 1] > 0, cnt + 1)
  ELSE [val |-> acc, over |-> over, cnt |-> cnt, rest |-> s]

\* The conversion %SCNu64 of sscanf on str: white space is skipped, one sign
\* is accepted, at least one decimal digit is needed.  ok: the conversion
\* matched; vals: the values it may store; rest: the unread input.  A number
\* with a '-' is negated as unsigned, as strtoull does.  A number outside the
\* 64-bit range is undefined behaviour of sscanf: it stores either the
\* saturated or the wrapped value.
ScanU64(str) ==
  LET s1   == SkipSpace(str)
      sgn  == s1 # <<>> /\ IsSign(Head(s1))
      s2   == IF sgn THEN Tail(s1) ELSE s1
      d    == ScanDigits(s2, Zero64, FALSE, 0)
      v    == IF sgn /\ Head(s1) = "-" THEN Neg64(d.val) ELSE d.val
  IN  [ok   |-> d.cnt > 0,
       vals |-> IF d.over THEN {Max64, v} ELSE {v},
       rest |-> d.rest]

\* 1024ULL
KiB == FromNat(1024)

\* 1024ULL * 1024ULL
MiB == Mul64(KiB, KiB)

\* 1024ULL * 1024ULL * 1024ULL
GiB == Mul64(MiB, KiB)

TiB == Mul64(GiB, KiB)

PiB == Mul64(TiB, KiB)

EiB == Mul64(PiB, KiB)

\* 512
Sector == FromNat(512)

\* the characters the switch of parse_size has a case for
SuffixChars == {"k", "K", "m", "M", "g", "G", "t", "T", "p", "P", "e", "E", "s"}

\* the switch with the sector case multiplying by 1024
Factor_sector_as_kib(type) ==
  CASE type \in {"k", "K", "s"} -> KiB
    [] type \in {"m", "M"} -> MiB
    [] type \in {"g", "G"} -> GiB
    [] type \in {"t", "T"} -> TiB
    [] type \in {"p", "P"} -> PiB
    [] type \in {"e", "E"} -> EiB

\* the factor of each case of the switch
Factor(type) ==
  CASE type \in {"k", "K"} -> KiB
    [] type \in {"m", "M"} -> MiB
    [] type \in {"g", "G"} -> GiB
    [] type \in {"t", "T"} -> TiB
    [] type \in {"p", "P"} -> PiB
    [] type \in {"e", "E"} -> EiB
    [] type = "s"          -> Sector

\* parse_size (str, &size): the possible results.  ret = 0 with the value
\* stored through size_rtn, or ret = -1 with nothing stored.
parse_size(str) ==
  LET sc == ScanU64(str)
  IN  IF sc.ok /\ sc.rest # <<>>
      THEN \* sscanf (str, "%llu%c", &size, &type) == 2
           LET type == Head(sc.rest)
           IN  IF type \in SuffixChars
               THEN {[ret |-> 0, size |-> Mul64(v, Factor(type))] :
                       v \in sc.vals}
               ELSE {[ret |-> -1, size |-> Zero64]}
      ELSE IF sc.ok
      THEN \* sscanf (str, "%llu", &size) == 1
           {[ret |-> 0, size |-> Mul64(v, KiB)] : v \in sc.vals}
      ELSE {[ret |-> -1, size |-> Zero64]}

(* ------------------------------------------------------------------ *)
(* Inputs of parse_size                                                *)
(* ------------------------------------------------------------------ *)

\* remainder of the bytes W..i of a divided by 10
RECURSIVE Rem10(_, _)
Rem10(a, i) == IF i > W THEN 0 ELSE (Rem10(a, i + 1) * B + a[i]) % 10

Div10(a) == Bytes(LAMBDA i : (Rem10(a, i + 1) * B + a[i]) \div 10)

RECURSIVE DecimalRec(_)
DecimalRec(a) ==
  IF a = Zero64 THEN <<>>
  ELSE Append(DecimalRec(Div10(a)), Digits[Rem10(a, 1) + 1])

\* the decimal digits of a 64-bit unsigned value
Decimal(a) == IF a = Zero64 THEN <<"0">> ELSE DecimalRec(a)

\* a * 2^b modulo 2^64, as the bits of a moved b places up
Shl(a, b) ==
  LET q == b \div 8
      r == 2 ^ (b % 8)
      at(j) == IF j \in 1..W THEN a[j] ELSE 0
  IN  Bytes(LAMBDA i : ((at(i - q) * r) % B) + ((at(i - q - 1) * r) \div B))

\* the numbers written in the size specs
Numbers ==
  {Shl(FromNat(a), b) : a \in 0..MaxMantissa, b \in 0..(8 * W - 1)}
    \cup {Sub64(Max64, FromNat(a)) : a \in 0..MaxMantissa}

\* what may stand before the digits
Prefixes == {<<>>, <<" ">>, <<"-">>, <<"+">>}

\* the characters that may follow the digits
AfterChars == SuffixChars \cup {"S", "x", " "}

TrailChars == {"x", "k"}

RECURSIVE Trails(_)
Trails(k) ==
  IF k = 0 THEN {<<>>}
  ELSE Trails(k - 1) \cup {Append(t, c) : t \in Trails(k - 1), c \in TrailChars}

\* what may follow the digits
Tails == {<<>>} \cup {<<c>> \o t : c \in AfterChars, t \in Trails(MaxTrail)}

\* size specs with no number at their head, and one beyond the 64-bit range
OtherSpecs ==
  {<<>>, <<"a", "b", "c">>, <<"k">>, <<"-">>, <<" ">>, <<"-", "k">>,
   Decimal(Max64) \o <<"0">>, Decimal(Max64) \o <<"0", "s">>}

(* ------------------------------------------------------------------ *)
(* State                                                               *)
(* ------------------------------------------------------------------ *)

VARIABLES
  cmd,            \* the function running: "alloc", "sparse" or "parse_size"
  argc, argv,     \* its arguments: argv[1] the path, argv[2] the size spec
  have_fallocate, \* the build: HAVE_POSIX_FALLOCATE defined or not
  g_config,       \* what guestfs_is_config (g) answers
  num,            \* the number the size spec was written from
  disk0,          \* the file at the path before the command
  pc,             \* the statement the function is at
  size,           \* off_t size
  fd,             \* the descriptor: "none", "open" or "closed"
  offset,         \* the file offset of the descriptor
  remaining,      \* size_t remaining of the write loop
  written,        \* bytes the write loop has written
  disk,           \* the file at the path
  drives,         \* the paths guestfs_add_drive accepted
  log,            \* the checks and calls made so far, each with its outcome
  ret             \* <<>> while running, <<r>> once the function returned r

inputs == <<cmd, argc, argv, have_fallocate, g_config, num, disk0>>

vars == <<cmd, argc, argv, have_fallocate, g_config, num, disk0, pc, size, fd,
          offset, remaining, written, disk, drives, log, ret>>

\* the path argument
Path == <<"f">>

NoFile == [exists |-> FALSE, len |-> Zero64, zero |-> TRUE]

\* a file some earlier command left at the path, with data in it
OldFile == [exists |-> TRUE, len |-> FromNat(PreLen), zero |-> FALSE]

\* open (..., O_WRONLY|O_CREAT|O_NOCTTY|O_TRUNC, 0666) succeeded
EmptyFile == [exists |-> TRUE, len |-> Zero64, zero |-> TRUE]

Ev(op, ok) == [op |-> op, ok |-> ok]

\* the log with one more event; the successful writes of the loop are one entry
Logged(l, e) ==
  IF l # <<>> /\ l[Len(l)] = e /\ e = Ev("write", TRUE) THEN l ELSE Append(l, e)

\* return r
Return(r) == pc' = "done" /\ ret' = <<r>>

\* the size specs the handlers are run on
HandlerSpecs ==
  {<<"0">>, <<"1">>, <<"1", "s">>, <<"3", "s">>, <<"1", "S">>,
   <<"a", "b", "c">>, <<"8", "E">>, <<"1", "6", "E">>, <<"1", "k", "x">>,
   <<"-", "1">>}

\* the argument vectors the shell may hand over
Argvs ==
  {<<Path>>} \cup {<<Path, s>> : s \in HandlerSpecs}
    \cup {<<Path, s, <<"x">>>> : s \in {<<"1", "s">>}}

InitLocals ==
  /\ pc = "start"
  /\ size = Zero64
  /\ fd = "none"
  /\ offset = Zero64
  /\ remaining = Zero64
  /\ written = 0
  /\ disk = disk0
  /\ drives = <<>>
  /\ log = <<>>
  /\ ret = <<>>

Init ==
  /\ cmd \in {"alloc", "sparse"}
  /\ argv \in Argvs
  /\ argc = Len(argv)
  /\ have_fallocate \in BOOLEAN
  /\ g_config \in BOOLEAN
  /\ num = Zero64
  /\ disk0 \in {NoFile, OldFile}
  /\ InitLocals

(* ------------------------------------------------------------------ *)
(* The system calls                                                    *)
(* ------------------------------------------------------------------ *)

\* the length of a file of length len after a write that ends at offset end
Extended(len, end) == IF Less64(len, end) THEN end ELSE len

\* what write (fd, buf, n) may return with `used` bytes of the disk taken:
\* -1, or the count written, which may be short
WriteResults(n, used) ==
  {-1} \cup {r \in {1, n \div 2, n} : r >= 1 /\ used + r <= DiskBytes}

\* what posix_fallocate (fd, 0, len) may return: 0, or an error number
\* (EINVAL = 22 for len <= 0, EFBIG = 27, ENOSPC = 28); never -1
FallocateResults(len) ==
  IF IsNeg(len) \/ len = Zero64 THEN {22}
  ELSE {27, 28}
         \cup (IF FitsNat(len) /\ ToNat(len) <= DiskBytes THEN {0} ELSE {})

\* the seek going to size instead of size - 1
SizeMinusOne_off_by_one(sz) == {[trap |-> FALSE, val |-> sz]}

\* size - 1 as the build computes it; for size = INT64_MIN the subtraction
\* overflows (undefined): it wraps to INT64_MAX, or the build traps
SizeMinusOne(sz) ==
  IF sz = OffMin
  THEN {[trap |-> FALSE, val |-> OffMax], [trap |-> TRUE, val |-> sz]}
  ELSE {[trap |-> FALSE, val |-> Sub64(sz, One64)]}

\* the error path leaving the descriptor open
FailClosing_no_close(op) ==
  /\ log' = log \o <<Ev(op, FALSE), Ev("unlink", TRUE)>>
  /\ fd' = fd
  /\ disk' = NoFile
  /\ Return(-1)

\* close (fd); unlink (argv[0]); return -1;   after the failed call `op`
FailClosing(op) ==
  /\ log' = log \o <<Ev(op, FALSE), Ev("close", TRUE), Ev("unlink", TRUE)>>
  /\ fd' = "closed"
  /\ disk' = NoFile
  /\ Return(-1)

(* ------------------------------------------------------------------ *)
(* do_alloc                                                            *)
(* ------------------------------------------------------------------ *)

do_alloc_argc ==
  /\ cmd = "alloc" /\ pc = "start"
  /\ log' = Append(log, Ev("argc", argc = 2))
  /\ IF argc # 2 THEN Return(-1) ELSE pc' = "parse" /\ ret' = ret
  /\ UNCHANGED <<inputs, size, fd, offset, remaining, written, disk, drives>>

\* do_alloc going on to open without asking guestfs_is_config
do_alloc_parse_no_config ==
  /\ cmd = "alloc" /\ pc = "parse"
  /\ \E res \in parse_size(argv[2]) :
       /\ log' = Append(log, Ev("parse_size", res.ret = 0))
       /\ IF res.ret = -1
          THEN Return(-1) /\ size' = size
          ELSE pc' = "open" /\ size' = res.size /\ ret' = ret
  /\ UNCHANGED <<inputs, fd, offset, remaining, written, disk, drives>>

do_alloc_parse ==
  /\ cmd = "alloc" /\ pc = "parse"
  /\ \E res \in parse_size(argv[2]) :
       /\ log' = Append(log, Ev("parse_size", res.ret = 0))
       /\ IF res.ret = -1
          THEN Return(-1) /\ size' = size
          ELSE pc' = "config" /\ size' = res.size /\ ret' = ret
  /\ UNCHANGED <<inputs, fd, offset, remaining, written, disk, drives>>

do_alloc_config ==
  /\ cmd = "alloc" /\ pc = "config"
  /\ log' = Append(log, Ev("is_config", g_config))
  /\ IF ~g_config THEN Return(-1) ELSE pc' = "open" /\ ret' = ret
  /\ UNCHANGED <<inputs, size, fd, offset, remaining, written, disk, drives>>

do_alloc_open ==
  /\ cmd = "alloc" /\ pc = "open"
  /\ \E ok \in BOOLEAN :
       /\ log' = Append(log, Ev("open", ok))
       /\ IF ~ok
          THEN Return(-1) /\ UNCHANGED <<fd, disk>>
          ELSE /\ fd' = "open"
               /\ disk' = EmptyFile
               /\ pc' = IF have_fallocate THEN "fallocate" ELSE "buffer"
               /\ ret' = ret
  /\ UNCHANGED <<inputs, size, offset, remaining, written, drives>>

\* #ifdef HAVE_POSIX_FALLOCATE
do_alloc_fallocate ==
  /\ cmd = "alloc" /\ pc = "fallocate"
  /\ \E r \in FallocateResults(size) :
       IF r = -1
       THEN FailClosing("posix_fallocate")
       ELSE /\ log' = Append(log, Ev("posix_fallocate", r = 0))
            /\ disk' = IF r = 0 THEN [disk EXCEPT !.len = size] ELSE disk
            /\ pc' = "close"
            /\ UNCHANGED <<fd, ret>>
  /\ UNCHANGED <<inputs, size, offset, remaining, written, drives>>

\* #else: char buffer[BUFSIZ]; memset; size_t remaining = size;
do_alloc_buffer ==
  /\ cmd = "alloc" /\ pc = "buffer"
  /\ remaining' = size
  /\ pc' = "loop"
  /\ UNCHANGED <<inputs, size, fd, offset, written, disk, drives, log, ret>>

\* the loop counting every write as a full one: remaining -= n
do_alloc_write_full ==
  /\ cmd = "alloc" /\ pc = "loop" /\ remaining # Zero64
  /\ LET n == IF FitsNat(remaining) /\ ToNat(remaining) <= BUFSIZ
              THEN ToNat(remaining) ELSE BUFSIZ
     IN  \E r \in WriteResults(n, written) :
           IF r = -1
           THEN FailClosing("write") /\ UNCHANGED <<remaining, written, offset>>
           ELSE /\ remaining' = Sub64(remaining, FromNat(n))
                /\ written' = written + r
                /\ offset' = Add64(offset, FromNat(r))
                /\ disk' = [disk EXCEPT !.len =
                              Extended(disk.len, Add64(offset, FromNat(r)))]
                /\ log' = Logged(log, Ev("write", TRUE))
                /\ UNCHANGED <<pc, fd, ret>>
  /\ UNCHANGED <<inputs, size, drives>>

\* one iteration of while (remaining > 0)
do_alloc_write ==
  /\ cmd = "alloc" /\ pc = "loop" /\ remaining # Zero64
  /\ LET n == IF FitsNat(remaining) /\ ToNat(remaining) <= BUFSIZ
              THEN ToNat(remaining) ELSE BUFSIZ
     IN  \E r \in WriteResults(n, written) :
           IF r = -1
           THEN FailClosing("write") /\ UNCHANGED <<remaining, written, offset>>
           ELSE /\ remaining' = Sub64(remaining, FromNat(r))
                /\ written' = written + r
                /\ offset' = Add64(offset, FromNat(r))
                /\ disk' = [disk EXCEPT !.len =
                              Extended(disk.len, Add64(offset, FromNat(r)))]
                /\ log' = Logged(log, Ev("write", TRUE))
                /\ UNCHANGED <<pc, fd, ret>>
  /\ UNCHANGED <<inputs, size, drives>>

\* the loop condition fails
do_alloc_loop_end ==
  /\ cmd = "alloc" /\ pc = "loop" /\ remaining = Zero64
  /\ pc' = "close"
  /\ UNCHANGED <<inputs, size, fd, offset, remaining, written, disk, drives,
                 log, ret>>

do_alloc_close ==
  /\ cmd = "alloc" /\ pc = "close"
  /\ fd' = "closed"
  /\ \E ok \in BOOLEAN :
       IF ~ok
       THEN /\ log' = log \o <<Ev("close", FALSE), Ev("unlink", TRUE)>>
            /\ disk' = NoFile
            /\ Return(-1)
       ELSE /\ log' = Append(log, Ev("close", TRUE))
            /\ pc' = "add_drive"
            /\ UNCHANGED <<disk, ret>>
  /\ UNCHANGED <<inputs, size, offset, remaining, written, drives>>

\* do_alloc leaving the file behind when guestfs_add_drive fails
do_alloc_add_drive_no_unlink ==
  /\ cmd = "alloc" /\ pc = "add_drive"
  /\ \E ok \in BOOLEAN :
       /\ log' = Append(log, Ev("add_drive", ok))
       /\ drives' = IF ok THEN Append(drives, argv[1]) ELSE drives
       /\ disk' = disk
       /\ Return(IF ok THEN 0 ELSE -1)
  /\ UNCHANGED <<inputs, size, fd, offset, remaining, written>>

do_alloc_add_drive ==
  /\ cmd = "alloc" /\ pc = "add_drive"
  /\ \E ok \in BOOLEAN :
       IF ~ok
       THEN /\ log' = log \o <<Ev("add_drive", FALSE), Ev("unlink", TRUE)>>
            /\ disk' = NoFile
            /\ drives' = drives
            /\ Return(-1)
       ELSE /\ log' = Append(log, Ev("add_drive", TRUE))
            /\ drives' = Append(drives, argv[1])
            /\ disk' = disk
            /\ Return(0)
  /\ UNCHANGED <<inputs, size, fd, offset, remaining, written>>

(* ------------------------------------------------------------------ *)
(* do_sparse                                                           *)
(* ------------------------------------------------------------------ *)

do_sparse_argc ==
  /\ cmd = "sparse" /\ pc = "start"
  /\ log' = Append(log, Ev("argc", argc = 2))
  /\ IF argc # 2 THEN Return(-1) ELSE pc' = "parse" /\ ret' = ret
  /\ UNCHANGED <<inputs, size, fd, offset, remaining, written, disk, drives>>

do_sparse_parse ==
  /\ cmd = "sparse" /\ pc = "parse"
  /\ \E res \in parse_size(argv[2]) :
       /\ log' = Append(log, Ev("parse_size", res.ret = 0))
       /\ IF res.ret = -1
          THEN Return(-1) /\ size' = size
          ELSE pc' = "config" /\ size' = res.size /\ ret' = ret
  /\ UNCHANGED <<inputs, fd, offset, remaining, written, disk, drives>>

do_sparse_config ==
  /\ cmd = "sparse" /\ pc = "config"
  /\ log' = Append(log, Ev("is_config", g_config))
  /\ IF ~g_config THEN Return(-1) ELSE pc' = "open" /\ ret' = ret
  /\ UNCHANGED <<inputs, size, fd, offset, remaining, written, disk, drives>>

do_sparse_open ==
  /\ cmd = "sparse" /\ pc = "open"
  /\ \E ok \in BOOLEAN :
       /\ log' = Append(log, Ev("open", ok))
       /\ IF ~ok
          THEN Return(-1) /\ UNCHANGED <<fd, disk>>
          ELSE /\ fd' = "open"
               /\ disk' = EmptyFile
               /\ pc' = "lseek"
               /\ ret' = ret
  /\ UNCHANGED <<inputs, size, offset, remaining, written, drives>>

\* lseek (fd, size-1, SEEK_SET): EINVAL for a negative offset
do_sparse_lseek ==
  /\ cmd = "sparse" /\ pc = "lseek"
  /\ \E to \in SizeMinusOne(size), ok \in BOOLEAN :
       IF to.trap
       THEN pc' = "trap" /\ UNCHANGED <<log, fd, disk, offset, ret>>
       ELSE IF IsNeg(to.val) \/ ~ok
       THEN FailClosing("lseek") /\ offset' = offset
       ELSE /\ log' = Append(log, Ev("lseek", TRUE))
            /\ offset' = to.val
            /\ pc' = "write"
            /\ UNCHANGED <<fd, disk, ret>>
  /\ UNCHANGED <<inputs, size, remaining, written, drives>>

\* write (fd, &c, 1): EFBIG where the file would pass the largest off_t
do_sparse_write ==
  /\ cmd = "sparse" /\ pc = "write"
  /\ \E r \in IF offset = OffMax THEN {-1} ELSE WriteResults(1, 0) :
       IF r # 1
       THEN FailClosing("write") /\ offset' = offset
       ELSE /\ log' = Append(log, Ev("write", TRUE))
            /\ offset' = Add64(offset, One64)
            /\ disk' = [disk EXCEPT !.len =
                          Extended(disk.len, Add64(offset, One64))]
            /\ pc' = "close"
            /\ UNCHANGED <<fd, ret>>
  /\ UNCHANGED <<inputs, size, remaining, written, drives>>

do_sparse_close ==
  /\ cmd = "sparse" /\ pc = "close"
  /\ fd' = "closed"
  /\ \E ok \in BOOLEAN :
       IF ~ok
       THEN /\ log' = log \o <<Ev("close", FALSE), Ev("unlink", TRUE)>>
            /\ disk' = NoFile
            /\ Return(-1)
       ELSE /\ log' = Append(log, Ev("close", TRUE))
            /\ pc' = "add_drive"
            /\ UNCHANGED <<disk, ret>>
  /\ UNCHANGED <<inputs, size, offset, remaining, written, drives>>

do_sparse_add_drive ==
  /\ cmd = "sparse" /\ pc = "add_drive"
  /\ \E ok \in BOOLEAN :
       IF ~ok
       THEN /\ log' = log \o <<Ev("add_drive", FALSE), Ev("unlink", TRUE)>>
            /\ disk' = NoFile
            /\ drives' = drives
            /\ Return(-1)
       ELSE /\ log' = Append(log, Ev("add_drive", TRUE))
            /\ drives' = Append(drives, argv[1])
            /\ disk' = disk
            /\ Return(0)
  /\ UNCHANGED <<inputs, size, fd, offset, remaining, written>>

(* ------------------------------------------------------------------ *)
(* The handlers                                                        *)
(* ------------------------------------------------------------------ *)

do_alloc ==
  \/ do_alloc_argc
  \/ do_alloc_parse
  \/ do_alloc_config
  \/ do_alloc_open
  \/ do_alloc_fallocate
  \/ do_alloc_buffer
  \/ do_alloc_write
  \/ do_alloc_loop_end
  \/ do_alloc_close
  \/ do_alloc_add_drive

do_sparse ==
  \/ do_sparse_argc
  \/ do_sparse_parse
  \/ do_sparse_config
  \/ do_sparse_open
  \/ do_sparse_lseek
  \/ do_sparse_write
  \/ do_sparse_close
  \/ do_sparse_add_drive

Next == do_alloc \/ do_sparse

Spec == Init /\ [][Next]_vars

(* ------------------------------------------------------------------ *)
(* parse_size on its own                                               *)
(* ------------------------------------------------------------------ *)

\* the size specs parse_size is run on, each with the number it was written
\* from: every number with every tail, and the small numbers after a prefix
ParseInputs(ns) ==
  {[num |-> n, str |-> Decimal(n) \o t] : n \in ns, t \in Tails}
    \cup {[num |-> FromNat(a), str |-> p \o Decimal(FromNat(a)) \o t] :
            a \in 0..MaxMantissa, p \in Prefixes, t \in Tails}
    \cup {[num |-> Zero64, str |-> s] : s \in OtherSpecs}

InitParse ==
  /\ cmd = "parse_size"
  /\ \E in \in ParseInputs(Numbers) : num = in.num /\ argv = <<Path, in.str>>
  /\ argc = 2
  /\ have_fallocate = TRUE
  /\ g_config = TRUE
  /\ disk0 = NoFile
  /\ InitLocals

\* parse_size (argv[1], &size) called and its result kept
parse_size_call ==
  /\ cmd = "parse_size" /\ pc = "start"
  /\ \E res \in parse_size(argv[2]) :
       /\ size' = IF res.ret = 0 THEN res.size ELSE size
       /\ log' = Append(log, Ev("parse_size", res.ret = 0))
       /\ Return(res.ret)
  /\ UNCHANGED <<inputs, fd, offset, remaining, written, disk, drives>>

NextParse == parse_size_call

ParseSpec == InitParse /\ [][NextParse]_vars

(* ------------------------------------------------------------------ *)
(* The write loop on its own, run to completion                        *)
(* ------------------------------------------------------------------ *)

\* the size specs the loop is run on: 0, 512, 1536 and 2^63 bytes
LoopSpecs == {<<"0">>, <<"1", "s">>, <<"3", "s">>, <<"8", "E">>}

\* do_alloc in a build without posix_fallocate, on a fresh path
InitLoop ==
  /\ Init
  /\ cmd = "alloc"
  /\ ~have_fallocate
  /\ disk0 = NoFile
  /\ argv \in {<<Path, s>> : s \in LoopSpecs}

NextLoop ==
  \/ do_alloc_argc
  \/ do_alloc_parse
  \/ do_alloc_config
  \/ do_alloc_open
  \/ do_alloc_buffer
  \/ do_alloc_write
  \/ do_alloc_loop_end
  \/ do_alloc_close
  \/ do_alloc_add_drive

\* the command is one thread that runs each call as soon as the last returned
LoopSpec == InitLoop /\ [][NextLoop]_vars /\ WF_vars(NextLoop)

(* ------------------------------------------------------------------ *)
(* Properties                                                          *)
(* ------------------------------------------------------------------ *)

Handler == cmd \in {"alloc", "sparse"}

Returned == pc = "done"

Has(e) == \E i \in DOMAIN log : log[i] = e

Count(op) == Cardinality({i \in DOMAIN log : log[i].op = op})

\* the calls that act on the file system or the drive registry
SideEffects ==
  {"open", "posix_fallocate", "write", "lseek", "close", "unlink", "add_drive"}

Touched == \E i \in DOMAIN log : log[i].op \in SideEffects

\* C1: in both handlers, whatever the calls after it answer, once the file
\* was opened a return of -1 leaves no file at the path.
C1_NoFileAfterFailure ==
  (Handler /\ Returned /\ ret = <<-1>> /\ Has(Ev("open", TRUE))) => ~disk.exists

\* a handler that created the file over an older one, saw guestfs_add_drive
\* fail and returned -1
C1_Witness ==
  /\ Handler /\ Returned /\ ret = <<-1>>
  /\ Has(Ev("open", TRUE)) /\ Has(Ev("add_drive", FALSE))
  /\ disk0 = OldFile /\ ~disk.exists

\* C2: whenever do_alloc returns 0 the file exists, is exactly as long as the
\* parsed size, is all zero, and guestfs_add_drive was called once with the
\* path.
C2_AllocSuccess ==
  (cmd = "alloc" /\ Returned /\ ret = <<0>>) =>
     /\ disk.exists /\ disk.len = size /\ disk.zero
     /\ Count("add_drive") = 1 /\ drives = <<Path>>

\* C3: a handler returns 0 only if every step succeeded and -1 whenever one
\* step failed.
C3_ReturnContract ==
  (Handler /\ Returned) =>
     /\ ret \in {<<0>>, <<-1>>}
     /\ ret = <<0>> <=> \A i \in DOMAIN log : log[i].ok

\* C4: nothing is done to the file system or the drive registry until the
\* argument count, the size spec and the configuration state have been
\* checked, in this order; a failed check returns -1 with both unchanged.
C4_ChecksFirst ==
  Handler =>
     /\ Touched =>
          /\ Len(log) >= 4
          /\ log[1] = Ev("argc", TRUE)
          /\ log[2] = Ev("parse_size", TRUE)
          /\ log[3] = Ev("is_config", TRUE)
     /\ \A i \in DOMAIN log :
          /\ log[i].op = "argc" => i = 1
          /\ log[i].op = "parse_size" => i = 2 /\ log[1].ok
          /\ log[i].op = "is_config" => i = 3 /\ log[2].ok
     /\ ~Touched => disk = disk0 /\ drives = <<>> /\ fd = "none"
     /\ (Returned /\ \E i \in DOMAIN log : i <= 3 /\ ~log[i].ok) =>
          ret = <<-1>> /\ ~Touched

\* a handler that returned -1 because the configuration is closed, with the
\* older file still at the path
C4_Witness ==
  /\ Handler /\ Returned /\ ret = <<-1>>
  /\ log = <<Ev("argc", TRUE), Ev("parse_size", TRUE), Ev("is_config", FALSE)>>
  /\ disk0 = OldFile /\ disk = OldFile

\* the power of two each suffix stands for
SuffixShift(t) ==
  CASE t = <<>> -> 10
    [] t \in {<<"k">>, <<"K">>} -> 10
    [] t \in {<<"m">>, <<"M">>} -> 20
    [] t \in {<<"g">>, <<"G">>} -> 30
    [] t \in {<<"t">>, <<"T">>} -> 40
    [] t \in {<<"p">>, <<"P">>} -> 50
    [] t \in {<<"e">>, <<"E">>} -> 60
    [] t = <<"s">> -> 9

\* C5: on the decimal digits of n, alone or with one suffix character,
\* parse_size succeeds with n times the suffix's factor modulo 2^64.
C5_SuffixFactors ==
  (cmd = "parse_size" /\ Returned) =>
     LET digits == Decimal(num)
     IN  \A t \in {<<>>} \cup {<<c>> : c \in SuffixChars} :
            argv[2] = digits \o t =>
               ret = <<0>> /\ size = Shl(num, SuffixShift(t))

\* a number of 2^56 or more with the suffix e: the product passes 2^64
C5_Witness ==
  /\ cmd = "parse_size" /\ Returned /\ ret = <<0>>
  /\ argv[2] = Decimal(num) \o <<"e">>
  /\ num[W] >= 1

\* C6: after a successful parse the off_t that parse_size stored is not
\* negative.
C6_NonNegative ==
  (cmd = "parse_size" /\ Returned /\ ret = <<0>>) => ~IsNeg(size)

\* <unsigned integer> with at most one suffix character after it
StrictSpec(s) ==
  \E k \in 1..Len(s) :
     /\ \A i \in 1..k : IsDigit(s[i])
     /\ \/ k = Len(s)
        \/ k + 1 = Len(s) /\ s[k + 1] \in SuffixChars

\* C7: parse_size succeeds exactly on <unsigned integer> with at most one
\* suffix character after it and nothing else.
C7_StrictGrammar ==
  (cmd = "parse_size" /\ Returned) => (ret = <<0>> <=> StrictSpec(argv[2]))

\* C8: once the file was opened the descriptor is closed exactly once before
\* the handler returns, and before guestfs_add_drive is called.
C8_ClosedOnce ==
  Handler =>
     /\ Count("close") <= 1
     /\ fd = "closed" <=> Count("close") = 1
     /\ fd # "none" <=> Has(Ev("open", TRUE))
     /\ (Returned /\ Has(Ev("open", TRUE))) => fd = "closed"
     /\ \A i \in DOMAIN log :
          log[i].op = "add_drive" => \E j \in 1..(i - 1) : log[j].op = "close"

\* a handler that returned after a failed seek
C8_Witness ==
  /\ Handler /\ Returned /\ Has(Ev("lseek", FALSE)) /\ fd = "closed"

\* what holds of the write loop in every state
LoopInv ==
  (cmd = "alloc" /\ ~have_fallocate) =>
     /\ pc = "loop" => Add64(FromNat(written), remaining) = size
     /\ pc = "close" =>
          remaining = Zero64 /\ FromNat(written) = size /\ disk.len = size
     /\ Has(Ev("write", FALSE)) =>
          /\ Returned /\ ret = <<-1>>
          /\ Cardinality({i \in DOMAIN log : log[i] = Ev("write", FALSE)}) = 1
          /\ Add64(FromNat(written), remaining) = size

\* C9: the write loop keeps written + remaining = size, leaves normally only
\* with remaining = 0, fails at the first failed write, and terminates.
C9_WriteLoop == []LoopInv /\ ((pc = "loop") ~> (pc # "loop"))

\* in the loop after a short write of one byte
C9_Witness ==
  /\ cmd = "alloc" /\ ~have_fallocate /\ pc = "loop"
  /\ written = BUFSIZ + 1 /\ remaining # Zero64

\* size >= 1 as an off_t
Positive(sz) == ~IsNeg(sz) /\ sz # Zero64

\* C10: do_sparse with a size of 0 has its seek to -1 rejected, closes and
\* unlinks the file, calls no guestfs_add_drive and returns -1; with a size
\* N >= 1 and every step succeeding it seeks to N - 1, writes one byte and
\* leaves a file of length N.
C10_Sparse ==
  (cmd = "sparse" /\ Returned) =>
     /\ (size = Zero64 /\ Has(Ev("open", TRUE))) =>
          /\ ret = <<-1>>
          /\ log = <<Ev("argc", TRUE), Ev("parse_size", TRUE),
                     Ev("is_config", TRUE), Ev("open", TRUE),
                     Ev("lseek", FALSE), Ev("close", TRUE), Ev("unlink", TRUE)>>
          /\ ~disk.exists /\ drives = <<>>
     /\ (Positive(size) /\ Has(Ev("add_drive", TRUE))) =>
          /\ ret = <<0>>
          /\ Has(Ev("lseek", TRUE)) /\ Has(Ev("write", TRUE))
          /\ offset = size
          /\ disk.exists /\ disk.len = size
     /\ ret = <<0>> => Positive(size) /\ disk.len = size

\* do_sparse run on a size spec that parses to 0
C10_Witness ==
  /\ cmd = "sparse" /\ Returned /\ size = Zero64
  /\ Has(Ev("lseek", FALSE)) /\ ~disk.exists

====
